---- MODULE Spec2Model ----
(***************************************************************************)
(* Model of src/game.js: the entity-component update pipeline of the game  *)
(* (time, input, movement, spawner, falling, difficulty, collision,        *)
(* cleanup), the key and resize handlers, and the animation-frame loop.    *)
(*                                                                         *)
(* Numbers.  The program computes with IEEE doubles; the model computes    *)
(* with exact fixed-point integers:                                        *)
(*   - time, dt, spawn.last, lastTime : units of 1/TU second;              *)
(*   - spawn.*Interval                : units of 1/(TU*ISC) second;        *)
(*   - positions and sizes            : units of 1/PXS pixel;              *)
(*   - falling speeds                 : position units per time unit;      *)
(*   - margins and Math.random()      : hundredths.                        *)
(* With these scales every product and quotient below is exact for         *)
(* difficulty levels 0..6 (level 6 is where the spawn interval reaches its *)
(* floor); rounding of doubles is not modelled.                            *)
(***************************************************************************)
EXTENDS Integers, Sequences, FiniteSets, TLC

VARIABLES world, inputState, canvas, lastTime, scheduled

vars == <<world, inputState, canvas, lastTime, scheduled>>

----------------------------------------------------------------------------
(* Scales of the fixed-point representation. *)
TU  == 4 * 5              \* time units per second (one unit = 50 ms)
ISC == 5 * 5 * 5 * 5 * 5 * 5   \* interval units per time unit
PXS == 4096 * 10          \* position units per pixel

(* Program constants. *)
PLAYER_SIZE == 150
BLOCK_SIZE  == 70
PLAYER_SPEED == 350       \* px/s, movementSystem
BASE_FALL_SPEED == 160    \* px/s, createBlock

PLAYER_MARGINS == [left |-> 15, right |-> 40, top |-> 8, bottom |-> 6]
GOOD_MARGINS   == [left |-> 14, right |-> 14, top |-> 8, bottom |-> 18]
BAD_MARGINS    == [left |-> 8,  right |-> 8,  top |-> 8, bottom |-> 7]

(* Bounds of the model. *)
MaxTime     == 640        \* Spec, SpecPipe: a pass starts only while time + dt <= MaxTime
MaxLongTime == 3700       \* SpecLong: the same, for the long frames
MaxScore    == 1          \* a pass starts only while score <= MaxScore

DTs     == {0, TU, 30 * TU}              \* frame deltas: 0 s, 1 s, 30 s
LongDTs == {30 * TU, 45 * TU}            \* long frames (a backgrounded tab): 30 s, 45 s
RandXs  == {0}                           \* Math.random() draws for x, in 1/100
RandKs  == {69, 70}                      \* Math.random() draws for kind, in 1/100
Keys    == {"ArrowLeft", "ArrowRight", "Space"}
Sizes   == {[width |-> 100, height |-> 300], [width |-> 400, height |-> 300]}

----------------------------------------------------------------------------
RECURSIVE Pow(_, _)
Pow(b, n) == IF n <= 0 THEN 1 ELSE b * Pow(b, n - 1)

Max(a, b) == IF a > b THEN a ELSE b
Min(a, b) == IF a < b THEN a ELSE b

Has(r, k) == k \in DOMAIN r

PlayerId == <<"player">>
BlockId(kind, ms) == <<kind, ms>>

createWorld ==
    [ entities   |-> << >>,
      time       |-> 0,
      spawn      |-> [ last         |-> 0,
                       baseInterval |-> (8 * TU * ISC) \div 10,
                       interval     |-> (8 * TU * ISC) \div 10,
                       minInterval  |-> (25 * TU * ISC) \div 100 ],
      score      |-> 0,
      game       |-> [over |-> FALSE],
      difficulty |-> [step |-> 30 * TU, factor |-> [n |-> 5, d |-> 4]] ]

addEntity(w, entity) == [w EXCEPT !.entities = Append(w.entities, entity)]

player(cv) ==
    [ id |-> PlayerId,
      components |->
        [ position |-> [ x |-> (cv.width * PXS) \div 2 - (PLAYER_SIZE * PXS) \div 2,
                         y |-> cv.height * PXS - PLAYER_SIZE * PXS - 20 * PXS ],
          size     |-> [w |-> PLAYER_SIZE * PXS, h |-> PLAYER_SIZE * PXS] ] ]

setInput(state, key, isDown) ==
    IF key = "ArrowLeft" THEN [state EXCEPT !.left = isDown]
    ELSE IF key = "ArrowRight" THEN [state EXCEPT !.right = isDown]
    ELSE state

----------------------------------------------------------------------------
(* The stages.  Each takes a world and dt and returns a world. *)

inputSystem(w, dt) == ("input" :> inputState) @@ w

clampXNoLowerBound(newX) == Min(canvas.width * PXS - PLAYER_SIZE * PXS, newX)

(* Math.max(0, Math.min(canvas.width - PLAYER_SIZE, newX)) *)
clampX(newX) == Max(0, Min(canvas.width * PXS - PLAYER_SIZE * PXS, newX))

(* movementSystem in which the left key takes precedence over the right *)
movementSystemLeftWins(w, dt) ==
    LET speed == (PLAYER_SPEED * PXS) \div TU
        input == IF Has(w, "input") THEN w.input ELSE << >>
        held(k) == Has(input, k) /\ input[k]
        dx == IF held("left") THEN -speed ELSE IF held("right") THEN speed ELSE 0
        move(e) ==
            IF e.id # PlayerId THEN e
            ELSE LET p == e.components.position
                     newX == clampX(p.x + dx * dt)
                 IN [e EXCEPT !.components.position = [x |-> newX, y |-> p.y]]
    IN [w EXCEPT !.entities = [i \in DOMAIN w.entities |-> move(w.entities[i])]]

movementSystem(w, dt) ==
    LET speed == (PLAYER_SPEED * PXS) \div TU
        input == IF Has(w, "input") THEN w.input ELSE << >>
        held(k) == Has(input, k) /\ input[k]
        dx == (IF held("left") THEN -speed ELSE 0) + (IF held("right") THEN speed ELSE 0)
        move(e) ==
            IF e.id # PlayerId THEN e
            ELSE LET p == e.components.position
                     newX == clampX(p.x + dx * dt)
                 IN [e EXCEPT !.components.position = [x |-> newX, y |-> p.y]]
    IN [w EXCEPT !.entities = [i \in DOMAIN w.entities |-> move(w.entities[i])]]

(* timeSystem that stores the delta instead of adding it *)
timeSystemSetsDt(w, dt) == [w EXCEPT !.time = dt]

timeSystem(w, dt) == [w EXCEPT !.time = w.time + dt]

createBlock(id, x, kind) ==
    [ id |-> id,
      components |->
        [ position |-> [x |-> x, y |-> -(BLOCK_SIZE * PXS)],
          size     |-> [w |-> BLOCK_SIZE * PXS, h |-> BLOCK_SIZE * PXS],
          falling  |-> [ baseSpeed |-> (BASE_FALL_SPEED * PXS) \div TU,
                         speed     |-> (BASE_FALL_SPEED * PXS) \div TU ],
          tag      |-> [kind |-> kind] ] ]

(* spawnerSystem without the interval gate: a block on every pass *)
spawnerSystemUngated(w, dt, rx, rk) ==
    LET x       == (rx * ((canvas.width - BLOCK_SIZE) * PXS)) \div 100
        kind    == IF rk < 70 THEN "bad" ELSE "good"
        blockId == BlockId(kind, (w.time * 1000) \div TU)
        block   == createBlock(blockId, x, kind)
        newWorld == addEntity(w, block)
    IN [newWorld EXCEPT !.spawn.last = w.time]

spawnerSystemLastPlusInterval(w, dt, rx, rk) ==
    LET last     == w.spawn.last
        interval == w.spawn.interval
    IN IF (w.time - last) * ISC < interval THEN w
       ELSE LET x       == (rx * ((canvas.width - BLOCK_SIZE) * PXS)) \div 100
                kind    == IF rk < 70 THEN "bad" ELSE "good"
                blockId == BlockId(kind, (w.time * 1000) \div TU)
                block   == createBlock(blockId, x, kind)
                newWorld == addEntity(w, block)
            IN [newWorld EXCEPT !.spawn.last = last + interval \div ISC]

(* rx and rk are the two Math.random() draws, in hundredths. *)
spawnerSystem(w, dt, rx, rk) ==
    LET last     == w.spawn.last
        interval == w.spawn.interval
    IN IF (w.time - last) * ISC < interval THEN w
       ELSE LET x       == (rx * ((canvas.width - BLOCK_SIZE) * PXS)) \div 100
                kind    == IF rk < 70 THEN "bad" ELSE "good"
                blockId == BlockId(kind, (w.time * 1000) \div TU)
                block   == createBlock(blockId, x, kind)
                newWorld == addEntity(w, block)
            IN [newWorld EXCEPT !.spawn.last = w.time]

fallingSystem(w, dt) ==
    LET fall(e) ==
            IF ~Has(e.components, "falling") \/ ~Has(e.components, "position") THEN e
            ELSE LET f == e.components.falling
                     p == e.components.position
                 IN [e EXCEPT !.components.position =
                                  [x |-> p.x, y |-> p.y + f.speed * dt]]
    IN [w EXCEPT !.entities = [i \in DOMAIN w.entities |-> fall(w.entities[i])]]

(* v * factor^level, for a factor n/d; the divisor is applied first so the
   intermediate value stays small *)
timesPow(v, n, d, level) == (v \div Pow(d, level)) * Pow(n, level)

fallSpeedCompounding(f, factor, level) == timesPow(f.speed, factor.n, factor.d, level)

(* speed: f.baseSpeed * speedMult *)
fallSpeed(f, factor, level) == timesPow(f.baseSpeed, factor.n, factor.d, level)

spawnIntervalUnclamped(sp, factor, level) ==
    timesPow(sp.baseInterval, factor.d, factor.n, level)

(* Math.max(world.spawn.baseInterval * intervalMult, world.spawn.minInterval) *)
spawnInterval(sp, factor, level) ==
    Max(timesPow(sp.baseInterval, factor.d, factor.n, level), sp.minInterval)

difficultySystem(w, dt) ==
    LET step   == w.difficulty.step
        factor == w.difficulty.factor
        level  == w.time \div step
        scale(e) ==
            IF ~Has(e.components, "falling") THEN e
            ELSE [e EXCEPT !.components.falling.speed =
                               fallSpeed(e.components.falling, factor, level)]
    IN [w EXCEPT !.entities = [i \in DOMAIN w.entities |-> scale(w.entities[i])],
                 !.spawn.interval = spawnInterval(w.spawn, factor, level)]

hitboxWithMargins(p, s, m) ==
    [ x |-> p.x + (s.w * m.left) \div 100,
      y |-> p.y + (s.h * m.top) \div 100,
      w |-> (s.w * (100 - m.left - m.right)) \div 100,
      h |-> (s.h * (100 - m.top - m.bottom)) \div 100 ]

rectsOverlap(a, b) ==
    /\ a.x < b.x + b.w
    /\ a.x + a.w > b.x
    /\ a.y < b.y + b.h
    /\ a.y + a.h > b.y

(* world.entities.find((e) => e.id === "player"): the first one *)
hasPlayer(w) == \E i \in DOMAIN w.entities : w.entities[i].id = PlayerId

findPlayer(w) ==
    w.entities[CHOOSE i \in DOMAIN w.entities :
                  /\ w.entities[i].id = PlayerId
                  /\ \A j \in 1..(i - 1) : w.entities[j].id # PlayerId]

playerRectOf(w) ==
    LET pl == findPlayer(w)
    IN hitboxWithMargins(pl.components.position, pl.components.size, PLAYER_MARGINS)

collisionKeepsDropsUntagged(playerRect, e) ==
    IF ~Has(e.components, "tag") THEN FALSE
    ELSE LET margins   == IF e.components.tag.kind = "good"
                          THEN GOOD_MARGINS ELSE BAD_MARGINS
             blockRect == hitboxWithMargins(e.components.position,
                                            e.components.size, margins)
         IN IF ~rectsOverlap(playerRect, blockRect) THEN TRUE
            ELSE IF e.components.tag.kind = "good" THEN FALSE
            ELSE TRUE

collisionKeepsRemovesAnyHit(playerRect, e) ==
    IF ~Has(e.components, "tag") THEN TRUE
    ELSE LET margins   == IF e.components.tag.kind = "good"
                          THEN GOOD_MARGINS ELSE BAD_MARGINS
             blockRect == hitboxWithMargins(e.components.position,
                                            e.components.size, margins)
         IN ~rectsOverlap(playerRect, blockRect)

(* the filter callback of collisionSystem: TRUE keeps the entity *)
(* filter callback that counts but never removes a block *)
collisionKeepsNeverRemoves(playerRect, e) == TRUE

collisionKeeps(playerRect, e) ==
    IF ~Has(e.components, "tag") THEN TRUE
    ELSE LET margins   == IF e.components.tag.kind = "good"
                          THEN GOOD_MARGINS ELSE BAD_MARGINS
             blockRect == hitboxWithMargins(e.components.position,
                                            e.components.size, margins)
         IN IF ~rectsOverlap(playerRect, blockRect) THEN TRUE
            ELSE IF e.components.tag.kind = "good" THEN FALSE
            ELSE TRUE

earnedByAnyKind(playerRect, entities) ==
    Cardinality({ i \in DOMAIN entities :
        LET e == entities[i]
        IN /\ Has(e.components, "tag")
           /\ rectsOverlap(playerRect,
                  hitboxWithMargins(e.components.position, e.components.size,
                     IF e.components.tag.kind = "good" THEN GOOD_MARGINS
                                                       ELSE BAD_MARGINS)) })

(* earned += 1 happens for the tagged, overlapping, good entities *)
earnedBy(playerRect, entities) ==
    Cardinality({ i \in DOMAIN entities :
        LET e == entities[i]
        IN /\ Has(e.components, "tag")
           /\ rectsOverlap(playerRect,
                  hitboxWithMargins(e.components.position, e.components.size,
                     IF e.components.tag.kind = "good" THEN GOOD_MARGINS
                                                       ELSE BAD_MARGINS))
           /\ e.components.tag.kind = "good" })

hitBadByAnyKind(playerRect, entities) ==
    \E i \in DOMAIN entities :
        LET e == entities[i]
        IN /\ Has(e.components, "tag")
           /\ rectsOverlap(playerRect,
                  hitboxWithMargins(e.components.position, e.components.size,
                                    BAD_MARGINS))

(* the some() callback of collisionSystem *)
hitBadBy(playerRect, entities) ==
    \E i \in DOMAIN entities :
        LET e == entities[i]
        IN /\ Has(e.components, "tag")
           /\ e.components.tag.kind = "bad"
           /\ rectsOverlap(playerRect,
                  hitboxWithMargins(e.components.position, e.components.size,
                                    BAD_MARGINS))

(* collisionSystem past its two early returns *)
collide(w) ==
    LET playerRect == playerRectOf(w)
        keep(e)    == collisionKeeps(playerRect, e)
    IN [w EXCEPT !.entities = SelectSeq(w.entities, keep),
                 !.score    = w.score + earnedBy(playerRect, w.entities),
                 !.game     = [over |-> hitBadBy(playerRect, w.entities)]]

collisionSystemNoOverReturn(w, dt) ==
    IF ~hasPlayer(w) THEN w ELSE collide(w)

collisionSystemStickyFlagOnly(w, dt) ==
    IF ~hasPlayer(w) THEN w
    ELSE [collide(w) EXCEPT !.game = [over |-> w.game.over \/ collide(w).game.over]]

(* collisionSystem that ends the game when it finds no player *)
collisionSystemNoPlayerEndsGame(w, dt) ==
    IF w.game.over THEN w
    ELSE IF ~hasPlayer(w) THEN [w EXCEPT !.game = [over |-> TRUE]]
    ELSE collide(w)

collisionSystem(w, dt) ==
    IF w.game.over THEN w
    ELSE IF ~hasPlayer(w) THEN w
    ELSE collide(w)

(* cleanupSystem that never drops a block *)
cleanupSystemKeepsAll(w, dt) == w

cleanupSystemKeepsBoundary(w, dt) ==
    LET keep(e) ==
            IF ~Has(e.components, "tag") THEN TRUE
            ELSE e.components.position.y <= canvas.height * PXS + e.components.size.h
    IN [w EXCEPT !.entities = SelectSeq(w.entities, keep)]

cleanupSystem(w, dt) ==
    LET keep(e) ==
            IF ~Has(e.components, "tag") THEN TRUE
            ELSE e.components.position.y < canvas.height * PXS + e.components.size.h
    IN [w EXCEPT !.entities = SelectSeq(w.entities, keep)]

(* pipeSystems(timeSystem, ..., cleanupSystem): a left fold over the       *)
(* stages.  stages(w, ...)[k] is the world after k stages, [0] the input.  *)
(* the pipeline with the difficulty stage moved in front of the spawner *)
stagesDifficultyBeforeSpawner(w, dt, rx, rk) ==
    LET w1 == timeSystem(w, dt)
        w2 == inputSystem(w1, dt)
        w3 == movementSystem(w2, dt)
        w4 == difficultySystem(w3, dt)
        w5 == spawnerSystem(w4, dt, rx, rk)
        w6 == fallingSystem(w5, dt)
        w7 == collisionSystem(w6, dt)
        w8 == cleanupSystem(w7, dt)
    IN [k \in 0..8 |-> CASE k = 0 -> w  [] k = 1 -> w1 [] k = 2 -> w2
                         [] k = 3 -> w3 [] k = 4 -> w4 [] k = 5 -> w5
                         [] k = 6 -> w6 [] k = 7 -> w7 [] OTHER -> w8]

stages(w, dt, rx, rk) ==
    LET w1 == timeSystem(w, dt)
        w2 == inputSystem(w1, dt)
        w3 == movementSystem(w2, dt)
        w4 == spawnerSystem(w3, dt, rx, rk)
        w5 == fallingSystem(w4, dt)
        w6 == difficultySystem(w5, dt)
        w7 == collisionSystem(w6, dt)
        w8 == cleanupSystem(w7, dt)
    IN [k \in 0..8 |-> CASE k = 0 -> w  [] k = 1 -> w1 [] k = 2 -> w2
                         [] k = 3 -> w3 [] k = 4 -> w4 [] k = 5 -> w5
                         [] k = 6 -> w6 [] k = 7 -> w7 [] OTHER -> w8]

update(w, dt, rx, rk) == stages(w, dt, rx, rk)[8]

----------------------------------------------------------------------------
(* State after the script has run: canvas sized to the window, the world   *)
(* created and the player added, no key held, the first frame requested.   *)
Init ==
    /\ canvas \in Sizes
    /\ world = addEntity(createWorld, player(canvas))
    /\ inputState = [left |-> FALSE, right |-> FALSE]
    /\ lastTime = 0
    /\ scheduled = TRUE

(* window "resize" listener *)
resizeCanvas(size) ==
    /\ canvas' = size
    /\ UNCHANGED <<world, inputState, lastTime, scheduled>>

(* keydown with setInput writing into the record that world.input shares *)
KeyDownWritesSharedInput(key) ==
    /\ inputState' = setInput(inputState, key, TRUE)
    /\ world' = IF Has(world, "input")
                THEN [world EXCEPT !.input = setInput(inputState, key, TRUE)]
                ELSE world
    /\ UNCHANGED <<canvas, lastTime, scheduled>>

(* window "keydown" listener *)
KeyDown(key) ==
    /\ inputState' = setInput(inputState, key, TRUE)
    /\ UNCHANGED <<world, canvas, lastTime, scheduled>>

(* window "keyup" listener *)
KeyUp(key) ==
    /\ inputState' = setInput(inputState, key, FALSE)
    /\ UNCHANGED <<world, canvas, lastTime, scheduled>>

loopAlwaysReschedules(currentTime, rx, rk) ==
    /\ scheduled
    /\ LET dt == currentTime - lastTime
       IN /\ lastTime' = currentTime
          /\ world' = update(world, dt, rx, rk)
    /\ scheduled' = TRUE
    /\ UNCHANGED <<inputState, canvas>>

(* requestAnimationFrame callback; drawing changes no state *)
loop(currentTime, rx, rk) ==
    /\ scheduled
    /\ LET dt == currentTime - lastTime
       IN /\ lastTime' = currentTime
          /\ world' = update(world, dt, rx, rk)
    /\ scheduled' = ~world'.game.over
    /\ UNCHANGED <<inputState, canvas>>

(* The pipeline called by an arbitrary driver: update applied to the       *)
(* retained world whatever game.over says.                                 *)
Pass(dt, rx, rk) ==
    /\ world' = update(world, dt, rx, rk)
    /\ UNCHANGED <<inputState, canvas, lastTime, scheduled>>

(* Bound of the exploration: which frames may still start. *)
WithinBounds(dt, maxTime) == world.time + dt <= maxTime /\ world.score <= MaxScore

Events ==
    \/ \E size \in Sizes : resizeCanvas(size)
    \/ \E key \in Keys : KeyDown(key)
    \/ \E key \in Keys : KeyUp(key)

(* The program, frames of 0 s, 1 s and 30 s. *)
Next ==
    \/ Events
    \/ \E dt \in DTs, rx \in RandXs, rk \in RandKs :
          WithinBounds(dt, MaxTime) /\ loop(lastTime + dt, rx, rk)

Spec == Init /\ [][Next]_vars

(* The program, long frames only: reaches difficulty level 6 and beyond. *)
NextLong ==
    \/ Events
    \/ \E dt \in LongDTs, rx \in RandXs, rk \in RandKs :
          WithinBounds(dt, MaxLongTime) /\ loop(lastTime + dt, rx, rk)

SpecLong == Init /\ [][NextLong]_vars

(* The pipeline under an arbitrary driver. *)
NextPipe ==
    \/ Events
    \/ \E dt \in DTs, rx \in RandXs, rk \in RandKs :
          WithinBounds(dt, MaxTime) /\ Pass(dt, rx, rk)

SpecPipe == Init /\ [][NextPipe]_vars

----------------------------------------------------------------------------
(* Vocabulary of the properties. *)

IsPlayer(e) == e.id = PlayerId
IsBlock(e, kind) == Has(e.components, "tag") /\ e.components.tag.kind = kind
Entities(w) == { w.entities[i] : i \in DOMAIN w.entities }
Players(w) == { i \in DOMAIN w.entities : IsPlayer(w.entities[i]) }

(* e's margin-adjusted rectangle overlaps that of the player of w *)
Touches(w, e) ==
    /\ hasPlayer(w)
    /\ Has(e.components, "tag")
    /\ rectsOverlap(playerRectOf(w),
          hitboxWithMargins(e.components.position, e.components.size,
             IF e.components.tag.kind = "good" THEN GOOD_MARGINS ELSE BAD_MARGINS))

TouchingBlocks(w, kind) == { e \in Entities(w) : IsBlock(e, kind) /\ Touches(w, e) }

(* the world after the first k stages of a pass over the current world *)
After(k, dt, rx, rk) == stages(world, dt, rx, rk)[k]

----------------------------------------------------------------------------
(* C1. Game over is absorbing: a pipeline pass applied to a world with     *)
(* game.over = true returns a world with game.over = true, for every dt    *)
(* and input state; no stage resets the flag.                              *)
C1_GameOverAbsorbing == [][world.game.over => world'.game.over]_vars

(* a finished game on which passes went on until no bad block touches the  *)
(* player any more                                                         *)
C1_Witness ==
    /\ world.game.over
    /\ TouchingBlocks(world, "bad") = {}

(* C2. Across pipeline passes the score never decreases, and from the      *)
(* first world with game.over = true on it never changes, even when good   *)
(* blocks overlap the player in later passes.                              *)
C2_ScoreMonotoneThenFrozen ==
    [][ /\ world'.score >= world.score
        /\ world.game.over => world'.score = world.score ]_vars

(* a finished game in which a good block overlaps the player *)
C2_Witness ==
    /\ world.game.over
    /\ TouchingBlocks(world, "good") # {}

(* C3, as stated: after the movement stage the player's x lies in          *)
(* [0, canvas_width - player_size], for every dt, input and canvas width.  *)
C3_ClampRangeAsStated ==
    \A dt \in DTs, rx \in RandXs, rk \in RandKs :
      \A e \in Entities(After(3, dt, rx, rk)) :
        IsPlayer(e) =>
          /\ 0 <= e.components.position.x
          /\ e.components.position.x <= canvas.width * PXS - PLAYER_SIZE * PXS

(* C3, amended: after the movement stage the player's x lies in            *)
(* [0, max(0, canvas_width - player_size)]: in [0, canvas_width -          *)
(* player_size] when the canvas is at least as wide as the player, and 0   *)
(* when it is narrower.                                                    *)
C3_ClampRange ==
    \A dt \in DTs, rx \in RandXs, rk \in RandKs :
      \A e \in Entities(After(3, dt, rx, rk)) :
        IsPlayer(e) =>
          /\ 0 <= e.components.position.x
          /\ e.components.position.x
               <= Max(0, canvas.width * PXS - PLAYER_SIZE * PXS)

(* the player pushed against the left edge by a frame with the left key    *)
(* held, on a canvas wider than the player                                 *)
C3_Witness ==
    /\ world.time > 0
    /\ canvas.width > PLAYER_SIZE
    /\ Has(world, "input") /\ world.input.left /\ ~world.input.right
    /\ \E e \in Entities(world) : IsPlayer(e) /\ e.components.position.x = 0

(* C4. Every world reachable by pipeline passes holds exactly one entity   *)
(* with id "player".                                                       *)
C4_ExactlyOnePlayer == Cardinality(Players(world)) = 1

(* the player still there after a block was spawned, a good block was      *)
(* collected and the game ended on a bad one                               *)
C4_Witness ==
    /\ Cardinality(Players(world)) = 1
    /\ world.score > 0
    /\ world.game.over
    /\ Len(world.entities) >= 2

(* C5. In every reachable world spawn.interval >= spawn.minInterval,       *)
(* whatever the difficulty level floor(time / step).                       *)
C5_IntervalAtLeastMin == world.spawn.interval >= world.spawn.minInterval

(* the floor reached: level 6 or more, interval equal to minInterval *)
C5_Witness ==
    /\ world.time \div world.difficulty.step >= 6
    /\ world.spawn.interval = world.spawn.minInterval

(* C6. Spawn gating: the spawner stage returns the world unchanged when   *)
(* time - spawn.last < spawn.interval; otherwise it appends exactly one    *)
(* block, whatever the elapsed gap, and sets spawn.last to the world's     *)
(* current time.                                                           *)
C6_SpawnGating ==
    \A dt \in DTs, rx \in RandXs, rk \in RandKs :
      LET w3 == After(3, dt, rx, rk)
          w4 == After(4, dt, rx, rk)
          n  == Len(w3.entities)
      IN IF (w3.time - w3.spawn.last) * ISC < w3.spawn.interval
         THEN w4 = w3
         ELSE /\ Len(w4.entities) = n + 1
              /\ SubSeq(w4.entities, 1, n) = w3.entities
              /\ Has(w4.entities[n + 1].components, "tag")
              /\ Has(w4.entities[n + 1].components, "falling")
              /\ w4.spawn.last = w3.time
              /\ w4.time = w3.time

(* a block spawned in the frame that just ran, still on screen *)
C6_Witness ==
    /\ world.time > 0
    /\ world.spawn.last = world.time
    /\ \E e \in Entities(world) :
          /\ Has(e.components, "tag")
          /\ e.id[2] = (world.time * 1000) \div TU

(* C7. Collision pickup: with game.over false and a player present, one    *)
(* collision-stage call removes exactly the good blocks whose              *)
(* margin-adjusted rectangle overlaps the player's, keeps every other      *)
(* entity, and adds the number of removed good blocks to the score.        *)
C7_CollisionPickup ==
    \A dt \in DTs, rx \in RandXs, rk \in RandKs :
      LET w6 == After(6, dt, rx, rk)
          w7 == After(7, dt, rx, rk)
          taken == TouchingBlocks(w6, "good")
          untaken(e) == e \notin taken
      IN (~w6.game.over /\ hasPlayer(w6)) =>
           /\ w7.entities = SelectSeq(w6.entities, untaken)
           /\ w7.score = w6.score
                 + Cardinality({ i \in DOMAIN w6.entities : w6.entities[i] \in taken })

(* a point was scored and the game goes on *)
C7_Witness ==
    /\ world.score > 0
    /\ ~world.game.over
    /\ scheduled

(* C8. Collision game-over: with game.over false, when a bad block's       *)
(* margin-adjusted rectangle overlaps the player's, one collision-stage    *)
(* call returns game.over = true and keeps that bad block; when no bad     *)
(* block overlaps, it returns game.over = false.                           *)
C8_CollisionGameOver ==
    \A dt \in DTs, rx \in RandXs, rk \in RandKs :
      LET w6 == After(6, dt, rx, rk)
          w7 == After(7, dt, rx, rk)
          bad == TouchingBlocks(w6, "bad")
      IN ~w6.game.over =>
           IF bad # {}
           THEN w7.game.over /\ bad \subseteq Entities(w7)
           ELSE ~w7.game.over

(* the loop stopped on a bad block that overlaps the player and is still   *)
(* in the entity list                                                      *)
C8_Witness ==
    /\ world.game.over
    /\ ~scheduled
    /\ TouchingBlocks(world, "bad") # {}

(* C9. Tie-break: in a collision-stage call with game.over false where     *)
(* the player overlaps both a good and a bad block, the score grows by the *)
(* number of overlapping good blocks, those are removed and game.over      *)
(* becomes true, all in that call.                                         *)
C9_TieBreak ==
    \A dt \in DTs, rx \in RandXs, rk \in RandKs :
      LET w6 == After(6, dt, rx, rk)
          w7 == After(7, dt, rx, rk)
          good == TouchingBlocks(w6, "good")
          bad  == TouchingBlocks(w6, "bad")
      IN (~w6.game.over /\ good # {} /\ bad # {}) =>
           /\ w7.score = w6.score + Cardinality(good)
           /\ good \cap Entities(w7) = {}
           /\ w7.game.over

(* The game ended at 2 s with one point, on the bad block spawned at 1 s.  *)
(* Blocks spawn at 1 s and 2 s only, so the point is the block spawned at  *)
(* 2 s; the bad block did not end the game at 1 s, so it ended it at 2 s;  *)
(* both blocks have the same x and a good block's rectangle lies inside a  *)
(* bad block's horizontally, so the call that took the point is the call   *)
(* that ended the game.                                                    *)
C9_Witness ==
    /\ world.game.over
    /\ world.score = 1
    /\ world.time = 2 * TU
    /\ \E e \in TouchingBlocks(world, "bad") : e.id = BlockId("bad", 1000)

(* the factor applied level times, one multiplication at a time *)
RECURSIVE TimesFactor(_, _, _)
TimesFactor(v, factor, level) ==
    IF level <= 0 THEN v
    ELSE TimesFactor((v * factor.n) \div factor.d, factor, level - 1)

(* C10. Difficulty idempotence: the difficulty stage applied twice at the  *)
(* same time gives the world it gives applied once; every falling.speed is *)
(* baseSpeed * factor^floor(time/step), with no compounding.               *)
C10_DifficultyIdempotent ==
    \A dt \in DTs, rx \in RandXs, rk \in RandKs :
      LET w5 == After(5, dt, rx, rk)
          once  == difficultySystem(w5, dt)
          twice == difficultySystem(once, dt)
          level == w5.time \div w5.difficulty.step
      IN /\ twice = once
         /\ \A e \in Entities(once) :
              Has(e.components, "falling") =>
                e.components.falling.speed
                  = TimesFactor(e.components.falling.baseSpeed,
                                w5.difficulty.factor, level)

(* a block on screen at level 1 or above, falling faster than its base     *)
(* speed                                                                   *)
C10_Witness ==
    /\ world.time \div world.difficulty.step >= 1
    /\ \E e \in Entities(world) :
          /\ Has(e.components, "falling")
          /\ e.components.falling.speed > e.components.falling.baseSpeed

----------------------------------------------------------------------------
(* The program in a window 340 px high, resized in width only.  A block    *)
(* spawned at level 0 has fallen 480 px after three frames of 1 s, which   *)
(* puts its y at 410 = canvas height + block height, the cleanup boundary. *)
MaxTallTime == 100        \* SpecTall: a pass starts only while time + dt <= MaxTallTime

TallSizes == {[width |-> 100, height |-> 340], [width |-> 400, height |-> 340]}

InitTall ==
    /\ canvas \in TallSizes
    /\ world = addEntity(createWorld, player(canvas))
    /\ inputState = [left |-> FALSE, right |-> FALSE]
    /\ lastTime = 0
    /\ scheduled = TRUE

NextTall ==
    \/ \E size \in TallSizes : resizeCanvas(size)
    \/ \E key \in Keys : KeyDown(key)
    \/ \E key \in Keys : KeyUp(key)
    \/ \E dt \in DTs, rx \in RandXs, rk \in RandKs :
          WithinBounds(dt, MaxTallTime) /\ loop(lastTime + dt, rx, rk)

SpecTall == InitTall /\ [][NextTall]_vars

(* C11. Cleanup boundary: the cleanup stage removes a tagged entity        *)
(* exactly when its y >= canvas_height + size.h (removed at the boundary,  *)
(* kept one below it) and keeps untagged entities at any y.                *)
C11_CleanupBoundary ==
    \A dt \in DTs, rx \in RandXs, rk \in RandKs :
      LET w7 == After(7, dt, rx, rk)
          w8 == After(8, dt, rx, rk)
          gone(e) == /\ Has(e.components, "tag")
                     /\ e.components.position.y
                          >= canvas.height * PXS + e.components.size.h
          stays(e) == ~gone(e)
      IN /\ w8.entities = SelectSeq(w7.entities, stays)
         /\ \A e \in Entities(w7) :
              /\ ~Has(e.components, "tag") => e \in Entities(w8)
              /\ (Has(e.components, "tag") /\ e.components.position.y
                     = canvas.height * PXS + e.components.size.h)
                   => e \notin Entities(w8)
              /\ (Has(e.components, "tag") /\ e.components.position.y
                     <= canvas.height * PXS + e.components.size.h - PXS)
                   => e \in Entities(w8)

(* At 3 s, score 0, game not over: the block spawned at 1 s was neither    *)
(* collected nor fatal, reached y = 410 = 340 + 70 in the frame that just  *)
(* ran, and is gone; the block spawned at 2 s (y = 250) is still there.    *)
C11_Witness ==
    /\ canvas.height = 340
    /\ world.time = 3 * TU
    /\ world.score = 0
    /\ ~world.game.over
    /\ \A e \in Entities(world) : Has(e.components, "tag") => e.id[2] # 1000
    /\ \E e \in Entities(world) : Has(e.components, "tag") /\ e.id[2] = 2000

----------------------------------------------------------------------------
(* C12. The tick driver stops for good at game over: a tick that returns   *)
(* game.over = true schedules no further frame, and from then on the       *)
(* pipeline is not invoked and the retained world never changes, whatever  *)
(* key events arrive.                                                      *)
C12_LoopStopsAtGameOver ==
    [][ /\ world'.game.over => ~scheduled'
        /\ world.game.over =>
             /\ world' = world
             /\ lastTime' = lastTime
             /\ ~scheduled' ]_vars

(* the game is over, no frame is pending, and the keys have changed since  *)
(* the last frame took its input                                           *)
C12_Witness ==
    /\ world.game.over
    /\ ~scheduled
    /\ Has(world, "input")
    /\ world.input # inputState

----------------------------------------------------------------------------
(* C13. Input snapshot stability.  Handlers run to completion, so a key    *)
(* event that arrives during a tick is dispatched after loop returns: it   *)
(* is a KeyDown or KeyUp step that follows the loop step.  In each tick    *)
(* the world.input seen by the movement stage and every later stage is the *)
(* input-state record as it was when the input-apply stage ran; a key      *)
(* event after that leaves the world, world.input included, as it is, and  *)
(* only a later tick observes it.                                          *)
C13_StagesSeeSnapshot ==
    \A dt \in DTs, rx \in RandXs, rk \in RandKs :
      \A k \in 2..8 :
        /\ Has(After(k, dt, rx, rk), "input")
        /\ After(k, dt, rx, rk).input = inputState

C13_InputSnapshotStable ==
    /\ []C13_StagesSeeSnapshot
    /\ [][ /\ inputState' # inputState => world' = world
           /\ world' # world => (inputState' = inputState
                                   /\ world'.input = inputState) ]_vars

(* a key changed after the last tick took its snapshot, and another tick   *)
(* is pending                                                              *)
C13_Witness ==
    /\ scheduled
    /\ ~world.game.over
    /\ world.time > 0
    /\ Has(world, "input")
    /\ world.input # inputState

----------------------------------------------------------------------------
(* C14. Missing player degrades to a no-op.  For the world the movement    *)
(* stage receives and the world the collision stage receives, each with    *)
(* the player entity taken out, the stage returns its input unchanged: no  *)
(* entity moved or removed, score and game.over as they were, whatever     *)
(* blocks are present.                                                     *)
WithoutPlayer(w) ==
    LET notPlayer(e) == ~IsPlayer(e)
    IN [w EXCEPT !.entities = SelectSeq(w.entities, notPlayer)]

C14_MissingPlayerNoOp ==
    \A dt \in DTs, rx \in RandXs, rk \in RandKs :
      LET m == WithoutPlayer(After(2, dt, rx, rk))
          c == WithoutPlayer(After(6, dt, rx, rk))
      IN /\ ~hasPlayer(m) /\ ~hasPlayer(c)
         /\ movementSystem(m, dt) = m
         /\ collisionSystem(c, dt) = c

(* a pass in which a key is held and a block touches the player, so both   *)
(* stages act on the world that has the player and neither acts on the     *)
(* same world without it                                                   *)
C14_Witness ==
    \E dt \in DTs, rx \in RandXs, rk \in RandKs :
      LET w2 == After(2, dt, rx, rk)
          w6 == After(6, dt, rx, rk)
      IN /\ movementSystem(w2, dt) # w2
         /\ ~w6.game.over
         /\ collisionSystem(w6, dt) # w6
         /\ Len(WithoutPlayer(w6).entities) > 0
         /\ movementSystem(WithoutPlayer(w2), dt) = WithoutPlayer(w2)
         /\ collisionSystem(WithoutPlayer(w6), dt) = WithoutPlayer(w6)

----------------------------------------------------------------------------
(* C15. Frame of the movement stage.  It changes at most the player's      *)
(* position.x: the entity list keeps its length and order, every           *)
(* non-player entity and every other component of the player are as they   *)
(* were, and so are time, spawn, score, game, difficulty and input.  With  *)
(* left and right both held, or with no world.input, the velocity is zero: *)
(* a player x inside [0, canvas width - player size] is unchanged.         *)
InRange(x) == 0 <= x /\ x <= canvas.width * PXS - PLAYER_SIZE * PXS

PlayerX(w) == findPlayer(w).components.position.x

SameButPlayerX(a, b) ==
    /\ [b EXCEPT !.entities = a.entities] = a
    /\ Len(b.entities) = Len(a.entities)
    /\ \A i \in DOMAIN a.entities :
         IF IsPlayer(a.entities[i])
         THEN [b.entities[i] EXCEPT !.components.position.x =
                                      a.entities[i].components.position.x]
              = a.entities[i]
         ELSE b.entities[i] = a.entities[i]

C15_MovementFrame ==
    \A dt \in DTs, rx \in RandXs, rk \in RandKs :
      LET w2 == After(2, dt, rx, rk)
          w3 == After(3, dt, rx, rk)
      IN /\ SameButPlayerX(w2, w3)
         /\ (w2.input.left /\ w2.input.right /\ InRange(PlayerX(w2))) => w3 = w2
         /\ (~Has(world, "input") /\ InRange(PlayerX(world)))
               => movementSystem(world, dt) = world

(* a tick has passed with both keys held and the player is still at its    *)
(* starting x on the wide canvas                                           *)
C15_Witness ==
    /\ world.time > 0
    /\ Has(world, "input")
    /\ world.input.left /\ world.input.right
    /\ canvas.width = 400
    /\ PlayerX(world) = (125 * PXS)

----------------------------------------------------------------------------
(* C16. A full pipeline pass with delta dt increases world.time by exactly *)
(* dt: the time stage adds dt and no other stage changes time.  From one   *)
(* tick's world to the next, time never decreases, and a tick advances it  *)
(* by the difference of the two frame timestamps.                          *)
C16_PassAddsDt ==
    \A dt \in DTs, rx \in RandXs, rk \in RandKs :
      /\ After(1, dt, rx, rk).time = world.time + dt
      /\ \A k \in 1..7 : After(k + 1, dt, rx, rk).time = After(k, dt, rx, rk).time
      /\ update(world, dt, rx, rk).time = world.time + dt

C16_TimeAdvancesByDt ==
    /\ []C16_PassAddsDt
    /\ [][ /\ world'.time >= world.time
           /\ lastTime' # lastTime
                 => world'.time - world.time = lastTime' - lastTime ]_vars

(* two ticks of one time step each have run *)
C16_Witness ==
    /\ world.time = 2 * TU
    /\ lastTime = 2 * TU
    /\ Len(world.entities) > 1

----------------------------------------------------------------------------
(* C17. Entity ids are pairwise distinct in every reachable world.  Two    *)
(* blocks in the list were spawned at least minInterval = 0.25 s of game   *)
(* time apart, so their millisecond stamps differ by at least 250 and no   *)
(* two of them share an id kind_stamp; no block has the id "player".       *)
Stamp(e) == e.id[2]

C17_IdsDistinct ==
    /\ \A i, j \in DOMAIN world.entities :
         i # j => world.entities[i].id # world.entities[j].id
    /\ \A i, j \in DOMAIN world.entities :
         (i < j /\ ~IsPlayer(world.entities[i]) /\ ~IsPlayer(world.entities[j]))
           => Stamp(world.entities[j]) - Stamp(world.entities[i])
                >= (world.spawn.minInterval * 1000) \div (TU * ISC)
    /\ \A e \in Entities(world) :
         Has(e.components, "tag") => e.id # PlayerId

(* two blocks of the same kind are in the list together with the player *)
C17_Witness ==
    \E i, j \in DOMAIN world.entities :
      /\ i < j
      /\ IsBlock(world.entities[i], "good")
      /\ IsBlock(world.entities[j], "good")
      /\ Players(world) # {}

----------------------------------------------------------------------------
(* C18. At the end of every full pipeline pass every block in the world,   *)
(* one spawned in that same pass included, has                             *)
(* falling.speed = falling.baseSpeed * factor^floor(time / step) for the   *)
(* world's time: the difficulty stage runs after the spawner, and the      *)
(* collision and cleanup stages hand on the entities they keep as they are.*)
SpeedForTime(e, w) ==
    TimesFactor(e.components.falling.baseSpeed, w.difficulty.factor,
                w.time \div w.difficulty.step)

C18_SpeedMatchesLevel ==
    /\ \A e \in Entities(world) :
         Has(e.components, "falling") =>
           e.components.falling.speed = SpeedForTime(e, world)
    /\ \A dt \in DTs, rx \in RandXs, rk \in RandKs :
         LET w6 == After(6, dt, rx, rk)
             w8 == After(8, dt, rx, rk)
         IN /\ Entities(w8) \subseteq Entities(w6)
            /\ w8.difficulty = w6.difficulty /\ w8.time = w6.time
            /\ \A e \in Entities(w8) :
                 Has(e.components, "falling") =>
                   e.components.falling.speed = SpeedForTime(e, w8)

(* a block spawned in the pass that just ended, at level 1 or above,       *)
(* already falls faster than its base speed                                *)
C18_Witness ==
    /\ world.time \div world.difficulty.step >= 1
    /\ \E e \in Entities(world) :
          /\ Has(e.components, "falling")
          /\ Stamp(e) = (world.time * 1000) \div TU
          /\ e.components.falling.speed > e.components.falling.baseSpeed

----------------------------------------------------------------------------
(* C19. Score conservation.  The numbers of good blocks spawned, collected *)
(* and cleaned up so far are not program state; the identity               *)
(*   score + good blocks present + good blocks cleaned = good blocks       *)
(*   spawned                                                               *)
(* holds at the start (score 0, no block) and is kept by every pass: the   *)
(* spawner adds at most one block and no score, the collision stage adds   *)
(* to score exactly the number of good blocks it removes and removes       *)
(* nothing else, the cleanup stage and the other stages leave score alone, *)
(* and a block removed is not in the list to be counted again.             *)
Goods(w) == { i \in DOMAIN w.entities : IsBlock(w.entities[i], "good") }

Bads(w) == { i \in DOMAIN w.entities : IsBlock(w.entities[i], "bad") }

NGood(w) == Cardinality(Goods(w))

Ids(w) == { w.entities[i].id : i \in DOMAIN w.entities }

C19_ScoreConservation ==
    /\ world.time = 0 => (world.score = 0 /\ Len(world.entities) = 1)
    /\ \A dt \in DTs, rx \in RandXs, rk \in RandKs :
         LET st == stages(world, dt, rx, rk)
             spawnedGood == IF Len(st[4].entities) > Len(st[3].entities)
                               /\ IsBlock(st[4].entities[Len(st[4].entities)], "good")
                            THEN 1 ELSE 0
             collected == NGood(st[6]) - NGood(st[7])
             cleaned   == NGood(st[7]) - NGood(st[8])
         IN /\ \A k \in {0, 1, 2, 4, 5} :
                 st[k + 1].score = st[k].score /\ NGood(st[k + 1]) = NGood(st[k])
            /\ st[4].score = st[3].score
            /\ Len(st[4].entities) - Len(st[3].entities) \in {0, 1}
            /\ NGood(st[4]) = NGood(st[3]) + spawnedGood
            /\ st[7].score = st[6].score + collected
            /\ collected >= 0
            /\ Len(st[6].entities) - Len(st[7].entities) = collected
            /\ Cardinality(Bads(st[7])) = Cardinality(Bads(st[6]))
            /\ \A e \in Entities(st[6]) \ Entities(st[7]) : e.id \notin Ids(st[7])
            /\ st[8].score = st[7].score
            /\ cleaned >= 0
            /\ st[8].score + NGood(st[8]) + cleaned
                 = world.score + NGood(world) + spawnedGood

(* a good block has been collected, another is in the list, and the next   *)
(* pass can drop a good block at the bottom                                *)
C19_Witness ==
    /\ world.score > 0
    /\ ~world.game.over
    /\ NGood(world) > 0
    /\ \E dt \in DTs, rx \in RandXs, rk \in RandKs :
          NGood(After(8, dt, rx, rk)) < NGood(After(7, dt, rx, rk))

----------------------------------------------------------------------------
(* The program with a fixed canvas height and frames that keep arriving    *)
(* 1 s or 2 s apart for as long as requestAnimationFrame(loop) is pending; *)
(* game time is followed up to MaxLiveTime.                                *)
MaxLiveTime == 120

PosDTs == {TU, 2 * TU}

TickLive ==
    \E dt \in PosDTs, rx \in RandXs, rk \in RandKs :
       world.time + dt <= MaxLiveTime /\ loop(lastTime + dt, rx, rk)

NextLive == Events \/ TickLive

(* The tick told by its effect on lastTime: a step of NextLive changes     *)
(* lastTime exactly when loop runs, and loop can run when a frame is       *)
(* pending and the shortest frame stays within MaxLiveTime.  The browser   *)
(* calls every pending requestAnimationFrame callback, hence the weak      *)
(* fairness.                                                               *)
FrameArrives ==
    /\ scheduled
    /\ world.time + TU <= MaxLiveTime
    /\ lastTime' \in { lastTime + dt : dt \in PosDTs }

SpecLive == Init /\ [][NextLive]_vars /\ WF_lastTime(FrameArrives)

(* C20. No block lingers forever: with a fixed canvas height and ticks     *)
(* that keep arriving with dt bounded below by a positive value, every     *)
(* spawned block is eventually out of the entity list, collected by the    *)
(* collision stage or dropped by the cleanup stage, unless the game is     *)
(* over first.  Blocks are followed when they are spawned at least Horizon *)
(* before the time the model stops at.                                     *)
Horizon == 3 * TU

LiveBlockIds ==
    { BlockId(kind, (k * TU * 1000) \div TU) : kind \in {"good", "bad"},
                                               k \in 0..(MaxLiveTime \div TU) }

Present(b) == b \in Ids(world)

Born(b) == (b[2] * TU) \div 1000

C20_BlocksAreLive ==
    /\ canvas.height = 300
    /\ \A e \in Entities(world) : Has(e.components, "tag") => e.id \in LiveBlockIds

C20_NoBlockLingers ==
    /\ []C20_BlocksAreLive
    /\ [][ lastTime' # lastTime
             => (FrameArrives /\ world'.time - world.time = lastTime' - lastTime) ]_vars
    /\ \A b \in LiveBlockIds :
         (Present(b) /\ Born(b) + Horizon <= MaxLiveTime)
            ~> (~Present(b) \/ world.game.over)

(* a block is in the list, the game goes on, and the next tick's cleanup   *)
(* stage drops that block                                                  *)
C20_Witness ==
    /\ scheduled
    /\ ~world.game.over
    /\ \E e \in Entities(world) :
          /\ Has(e.components, "tag")
          /\ Born(e.id) + Horizon <= MaxLiveTime
          /\ \E dt \in PosDTs, rx \in RandXs, rk \in RandKs :
                /\ world.time + dt <= MaxLiveTime
                /\ e.id \in Ids(After(7, dt, rx, rk))
                /\ e.id \notin Ids(After(8, dt, rx, rk))

====
